---- MODULE Spec2Model ----
(***************************************************************************)
(* Model of the metric scripts under src/sbin of hamersaw/stip:            *)
(*   sentinel-2-cloud-coverage.py, compute-cloud-coverage.py,              *)
(*   sentinel-2/spectral-metrics.py, feature-extraction/sentinel-2-glcm.py *)
(*   and feature-extraction/nlcd-pixel-category.py.                        *)
(*                                                                         *)
(* Spec          the entry points: argument parsing, the listing loop over *)
(*               the catalog records, pool.map(process, images), the exit  *)
(*               status.                                                   *)
(* SpecDedup     the listing loop of sentinel-2-glcm.py on repeated        *)
(*               geocodes.                                                 *)
(* SpecGrid      the loops of compute_cloud_coverage and                   *)
(*               compute_spectral_metrics.                                 *)
(* SpecHist      process of nlcd-pixel-category.py.                        *)
(* SpecWriteback process of sentinel-2-cloud-coverage.py on a file tree.   *)
(***************************************************************************)
EXTENDS Integers, Sequences, FiniteSets, TLC

\* ------------------------------------------------------------------ bounds
MaxImages == 5
MaxWorkers == 2
MaxDedup == 3
MaxTime == 2
MaxDim == 2
MaxRows == 2
MaxCols == 2
MaxBandDirs == 2

\* ------------------------------------------------------- program constants
\* `if len(image.files) != 4` in spectral-metrics.py and sentinel-2-glcm.py
RequiredFiles == 4

Metrics == {"cloud", "spectral", "glcm", "nlcd"}

\* the scripts whose images pass a file-count gate
Gated == {"spectral", "glcm"}

Geocodes == {1, 2}

\* the highest image.files index a script reads: files[0] (nlcd), files[1]
\* (spectral, through BANDS), files[3] (glcm); the cloud script reads image.path
TopIndex(m) ==
    CASE m = "nlcd" -> 0
      [] m = "spectral" -> 1
      [] m = "glcm" -> 3
      [] OTHER -> -1

\* file counts a catalog record may carry: too few for the highest index
\* read, the gate's number, one more than the gate's number
FileCounts(m) ==
    IF m \in Gated THEN {TopIndex(m), RequiredFiles, RequiredFiles + 1}
    ELSE {TopIndex(m), TopIndex(m) + 1}

VARIABLES
    metric,     \* which script runs
    argsOk,     \* whether argparse accepts sys.argv
    threads,    \* args.thread_count
    date,       \* args.date (sentinel-2-glcm.py only)
    catalog,    \* the records stippy.list_node_images yields, in order
    pc,         \* main: "parse", "list", "map", "exit"
    cursor,     \* position of the listing loop in catalog
    images,     \* the list handed to pool.map: indices into catalog
    taskq,      \* the chunks of images not yet taken by a worker
    cur,        \* cur[w]: what is left of the chunk worker w holds
    doneChunks, \* chunks whose result arrived as a success
    failed,     \* a chunk's result arrived as an exception
    opened,     \* records for which process opened a raster
    reported,   \* records whose metric line was printed
    noticed,    \* records for which 'not all subdatasets found' was printed
    raisedBy,   \* records whose process call raised
    exitCode    \* -1 while running, else the process exit status

entryVars == <<metric, argsOk, threads, date, catalog, pc, cursor, images,
               taskq, cur, doneChunks, failed, opened, reported, noticed,
               raisedBy, exitCode>>

VARIABLES
    variant,      \* "cloud": compute_cloud_coverage, "spectral": compute_spectral_metrics
    gpc,          \* "pass1", "pass2", "count", "done", "IndexError", "ZeroDivisionError"
    band,         \* position of the running loop in BANDS
    width,        \* the local `width`
    height,       \* the local `height`
    seenW,        \* native widths of the rasters opened in the first pass
    seenH,        \* native heights of the rasters opened in the first pass
    fileDims,     \* spectral: the size of image.files[k], once it was opened
    shapes,       \* shapes of the arrays read in the second pass
    depth,        \* length of every band_array[i][j] vector
    cloud_masks,  \* the classifier's mask (cloud_masks[0] of the code)
    ci, cj,       \* the indices i, j of the counting loop
    cloud_pixels,
    clear_pixels,
    ratio         \* the returned quotient, as [num, den]

gridVars == <<variant, gpc, band, width, height, seenW, seenH, fileDims, shapes,
              depth, cloud_masks, ci, cj, cloud_pixels, clear_pixels, ratio>>

VARIABLES
    array,    \* nlcd process: the band read, a sequence of rows
    hpc,      \* "scan", "done"
    hi, hj,   \* the indices i, j of the aggregation loop (from 1)
    pixels,   \* the dict `pixels`: its <<key, count>> items in insertion order
    output    \* the value:count items of the printed line, in order

histVars == <<array, hpc, hi, hj, pixels, output>>

VARIABLES
    wimages,  \* cloud process: the images being processed, as [geohash, source, tile]
    wvalue,   \* wvalue[k]: str(cloud_coverage) of image k when its bands decode
    absent,   \* paths of the modelled tree that do not exist
    corrupt,  \* paths gdal.Open cannot open
    wpc,      \* wpc[k]: "compute", "print", "update", "done", "error"
    pending,  \* pending[k]: paths the glob of image k has still to yield
    printed,  \* printed[k]: the value in the report line of image k, "" before
    tags,     \* tags[f]: the STIP CLOUD_COVERAGE item of file f, "" when unset
    writes    \* writes[k][f]: SetMetadataItem calls of image k on file f

wbVars == <<wimages, wvalue, absent, corrupt, wpc, pending, printed, tags, writes>>

vars == <<entryVars, gridVars, histVars, wbVars>>

notEntry == <<gridVars, histVars, wbVars>>

notGrid == <<entryVars, histVars, wbVars>>

notHist == <<entryVars, gridVars, wbVars>>

notWb == <<entryVars, gridVars, histVars>>

\* ----------------------------------------------------------------- helpers
Abs(x) == IF x < 0 THEN -x ELSE x

Range(s) == {s[k] : k \in 1..Len(s)}

Min2(a, b) == IF a < b THEN a ELSE b

\* multiprocessing.Pool._map_async: chunksize, extra = divmod(len, workers*4);
\* if extra: chunksize += 1
ChunkSize(n, w) == (n \div (w * 4)) + (IF n % (w * 4) # 0 THEN 1 ELSE 0)

\* Pool._get_tasks: consecutive slices of `size` items
RECURSIVE Chunks(_, _)
Chunks(s, size) ==
    IF Len(s) = 0 \/ size = 0 THEN <<>>
    ELSE <<SubSeq(s, 1, Min2(size, Len(s)))>>
         \o Chunks(SubSeq(s, Min2(size, Len(s)) + 1, Len(s)), size)

\* --------------------------------------------------------- the file gates
\* spectral-metrics.py process: `if len(image.files) != 4: ... return`
SpectralGateWeak(r) == r.files < RequiredFiles

SpectralRejects(r) == r.files # RequiredFiles

\* sentinel-2-glcm.py __main__: `if len(image.files) != 4: continue`
GlcmSkips(r) == r.files # RequiredFiles

\* sentinel-2-glcm.py __main__: the replacement test of the listing loop,
\* abs(images[geocode].timestamp - date) > abs(image.timestamp - date)
CloserOrEqual(kept, r, d) == Abs(kept.timestamp - d) >= Abs(r.timestamp - d)

Closer(kept, r, d) == Abs(kept.timestamp - d) > Abs(r.timestamp - d)

\* position in imgs of the record kept for geocode g, 0 when none
KeptAt(imgs, g) ==
    IF \E k \in 1..Len(imgs) : catalog[imgs[k]].geocode = g
    THEN CHOOSE k \in 1..Len(imgs) : catalog[imgs[k]].geocode = g
    ELSE 0

\* one iteration of the glcm listing loop on record i: the dict `images`
\* keyed by geocode, kept as the sequence of its values in insertion order
GlcmInsert(imgs, i, d) ==
    LET r == catalog[i]
        k == KeptAt(imgs, r.geocode)
    IN  IF GlcmSkips(r) THEN imgs
        ELSE IF k = 0 THEN Append(imgs, i)
        ELSE IF Closer(catalog[imgs[k]], r, d) THEN [imgs EXCEPT ![k] = i]
        ELSE imgs

\* ------------------------------------------------- process(image), by script
\* "report": the metric line is printed; "notice": the image is rejected by
\* the gate; "raise": an exception leaves process
Outcome(m, r) ==
    CASE m = "cloud" -> IF r.readable THEN "report" ELSE "raise"
      [] m = "spectral" ->
            IF SpectralRejects(r) THEN "notice"
            ELSE IF r.readable THEN "report" ELSE "raise"
      [] m = "nlcd" -> IF r.readable THEN "report" ELSE "raise"
      [] m = "glcm" ->
            IF r.files < RequiredFiles THEN "raise"
            ELSE IF r.readable THEN "report" ELSE "raise"

\* whether process reaches a gdal.Open / io.imread on one of the image's files
Opens(m, r) ==
    CASE m = "cloud" -> TRUE
      [] m = "spectral" -> ~SpectralRejects(r)
      [] m = "nlcd" -> TRUE
      [] m = "glcm" -> r.files >= RequiredFiles

\* ------------------------------------------------------------ entry points
Workers == 1..MaxWorkers

Record(n, b, g, t) == [files |-> n, readable |-> b, geocode |-> g, timestamp |-> t]

\* the records a script can meet: the cloud script reads image.path only, the
\* others image.files; readability matters only where a raster is opened
RecordsOf(m, g) ==
    CASE m = "cloud" -> {Record(1, b, g, 0) : b \in BOOLEAN}
      [] m = "nlcd" -> {Record(0, TRUE, g, 0)} \cup {Record(1, b, g, 0) : b \in BOOLEAN}
      [] OTHER -> {Record(n, TRUE, g, 0) : n \in FileCounts(m)}
                    \cup {Record(RequiredFiles, FALSE, g, 0)}

\* the state of compute_* before its first statement
IdleGrid ==
    /\ gpc = "pass1"
    /\ band = 1
    /\ width = 0
    /\ height = 0
    /\ seenW = {}
    /\ seenH = {}
    /\ fileDims = [k \in {0, 1} |-> <<0, 0>>]
    /\ shapes = {}
    /\ depth = 0
    /\ cloud_masks = <<>>
    /\ ci = 0
    /\ cj = 0
    /\ cloud_pixels = 0
    /\ clear_pixels = 0
    /\ ratio = [num |-> 0, den |-> 0]

\* nlcd process before its first statement
IdleHist ==
    /\ hpc = "scan"
    /\ hi = 1
    /\ hj = 1
    /\ pixels = <<>>
    /\ output = <<>>

IdleEntry ==
    /\ pc = "parse"
    /\ cursor = 1
    /\ images = <<>>
    /\ taskq = <<>>
    /\ cur = [w \in Workers |-> <<>>]
    /\ doneChunks = 0
    /\ failed = FALSE
    /\ opened = {}
    /\ reported = {}
    /\ noticed = {}
    /\ raisedBy = {}
    /\ exitCode = -1

\* the parts of the state a specification does not run are parked
ParkedEntry ==
    /\ metric = "cloud"
    /\ argsOk = TRUE
    /\ threads = 1
    /\ date = 0
    /\ catalog = <<>>
    /\ IdleEntry

ParkedGrid ==
    /\ variant = "cloud"
    /\ IdleGrid

ParkedHist ==
    /\ array = <<>>
    /\ IdleHist

ParkedWb ==
    /\ wimages = <<>>
    /\ wvalue = <<>>
    /\ absent = {}
    /\ corrupt = {}
    /\ wpc = <<>>
    /\ pending = <<>>
    /\ printed = <<>>
    /\ tags = <<>>
    /\ writes = <<>>

Init ==
    /\ metric \in Metrics
    /\ argsOk \in BOOLEAN
    /\ threads \in Workers
    /\ date = 0
    /\ \E n \in 0..MaxImages : \E c \in [1..n -> RecordsOf(metric, 0)] :
         \* the geocodes of this specification are pairwise distinct; SpecDedup
         \* runs the listing loop on repeated ones
         catalog = [k \in 1..n |-> [c[k] EXCEPT !.geocode = k]]
    /\ IdleEntry
    /\ ParkedGrid
    /\ ParkedHist
    /\ ParkedWb

\* parser.parse_args(): argparse ends the process with status 2 on an error
ParseArgs ==
    /\ pc = "parse"
    /\ IF argsOk
       THEN /\ pc' = "list"
            /\ exitCode' = exitCode
       ELSE /\ pc' = "exit"
            /\ exitCode' = 2
    /\ UNCHANGED <<metric, argsOk, threads, date, catalog, cursor, images,
                   taskq, cur, doneChunks, failed, opened, reported, noticed,
                   raisedBy>>
    /\ UNCHANGED notEntry

\* one iteration of `for (node, image) in stippy.list_node_images(...)`
ListImage ==
    /\ pc = "list"
    /\ cursor <= Len(catalog)
    /\ LET r == catalog[cursor] IN
       IF metric = "nlcd" /\ r.files = 0
       THEN \* image.files[0] raises IndexError in the main process
            /\ pc' = "exit"
            /\ exitCode' = 1
            /\ UNCHANGED <<cursor, images>>
       ELSE /\ images' = IF metric = "glcm"
                         THEN GlcmInsert(images, cursor, date)
                         ELSE Append(images, cursor)
            /\ cursor' = cursor + 1
            /\ UNCHANGED <<pc, exitCode>>
    /\ UNCHANGED <<metric, argsOk, threads, date, catalog, taskq, cur,
                   doneChunks, failed, opened, reported, noticed, raisedBy>>
    /\ UNCHANGED notEntry

\* `with multiprocessing.Pool(args.thread_count) as pool: pool.map(...)`:
\* the list is cut into chunks and the chunks are queued
StartMap ==
    /\ pc = "list"
    /\ cursor > Len(catalog)
    /\ pc' = "map"
    /\ taskq' = Chunks(images, ChunkSize(Len(images), threads))
    /\ UNCHANGED <<metric, argsOk, threads, date, catalog, cursor, images,
                   cur, doneChunks, failed, opened, reported, noticed,
                   raisedBy, exitCode>>
    /\ UNCHANGED notEntry

\* a free worker takes the next chunk
Take(w) ==
    /\ pc = "map"
    /\ w <= threads
    /\ cur[w] = <<>>
    /\ taskq # <<>>
    /\ cur' = [cur EXCEPT ![w] = Head(taskq)]
    /\ taskq' = Tail(taskq)
    /\ UNCHANGED <<metric, argsOk, threads, date, catalog, pc, cursor, images,
                   doneChunks, failed, opened, reported, noticed, raisedBy,
                   exitCode>>
    /\ UNCHANGED notEntry

\* worker w runs process on the next image of its chunk (mapstar); an
\* exception abandons the rest of the chunk and is sent back as the result
Process(w) ==
    /\ pc = "map"
    /\ cur[w] # <<>>
    /\ LET i == Head(cur[w])
           r == catalog[i]
           o == Outcome(metric, r)
       IN  /\ opened' = IF Opens(metric, r) THEN opened \cup {i} ELSE opened
           /\ reported' = IF o = "report" THEN reported \cup {i} ELSE reported
           /\ noticed' = IF o = "notice" THEN noticed \cup {i} ELSE noticed
           /\ raisedBy' = IF o = "raise" THEN raisedBy \cup {i} ELSE raisedBy
           /\ IF o = "raise"
              THEN /\ cur' = [cur EXCEPT ![w] = <<>>]
                   /\ failed' = TRUE
                   /\ UNCHANGED doneChunks
              ELSE /\ cur' = [cur EXCEPT ![w] = Tail(cur[w])]
                   /\ doneChunks' = IF Len(cur[w]) = 1 THEN doneChunks + 1
                                    ELSE doneChunks
                   /\ UNCHANGED failed
    /\ UNCHANGED <<metric, argsOk, threads, date, catalog, pc, cursor, images,
                   taskq, exitCode>>
    /\ UNCHANGED notEntry

\* every chunk came back as a success: map returns, the script ends
MapReturn ==
    /\ pc = "map"
    /\ ~failed
    /\ taskq = <<>>
    /\ \A w \in Workers : cur[w] = <<>>
    /\ pc' = "exit"
    /\ exitCode' = 0
    /\ UNCHANGED <<metric, argsOk, threads, date, catalog, cursor, images,
                   taskq, cur, doneChunks, failed, opened, reported, noticed,
                   raisedBy>>
    /\ UNCHANGED notEntry

\* a chunk came back as an exception: map re-raises it in the main process,
\* the with-block terminates the pool and the interpreter exits with status 1
MapRaise ==
    /\ pc = "map"
    /\ failed
    /\ pc' = "exit"
    /\ exitCode' = 1
    /\ UNCHANGED <<metric, argsOk, threads, date, catalog, cursor, images,
                   taskq, cur, doneChunks, failed, opened, reported, noticed,
                   raisedBy>>
    /\ UNCHANGED notEntry

Next ==
    \/ ParseArgs
    \/ ListImage
    \/ StartMap
    \/ \E w \in Workers : Take(w)
    \/ \E w \in Workers : Process(w)
    \/ MapReturn
    \/ MapRaise

Spec == Init /\ [][Next]_vars

\* --------------------------------------------- SpecGrid: the compute_* loops
\* sentinel-2-cloud-coverage.py and compute-cloud-coverage.py
BANDS_cloud == <<"B01", "B02", "B04", "B05", "B08", "B8A", "B09", "B10", "B11", "B12">>

\* spectral-metrics.py: (file_index, band_index)
BANDS_spectral == <<<<0, 1>>, <<0, 2>>, <<0, 3>>, <<0, 4>>, <<1, 5>>>>

NumBands(v) == IF v = "cloud" THEN Len(BANDS_cloud) ELSE Len(BANDS_spectral)

\* native raster sizes <<width, height>>
Dims == (1..MaxDim) \X (1..MaxDim)

Max(S) == CHOOSE x \in S : \A y \in S : y <= x

\* `if x > width: width = x` (and the same for height)
GrowWrong(c, x) == IF x < c THEN x ELSE c

Grow(c, x) == IF x > c THEN x ELSE c

\* shape <<rows, columns>> of ReadAsArray(buf_xsize=bx, buf_ysize=by)
ReadAsArray(bx, by) == <<by, bx>>

\* `if cloud_masks[0][i][j] == 0`
IsClearWrong(v) == v # 0

IsClear(v) == v = 0

InitGrid ==
    /\ ParkedEntry
    /\ variant \in {"cloud", "spectral"}
    /\ IdleGrid
    /\ ParkedHist
    /\ ParkedWb

\* first loop over BANDS: open the raster, keep the larger width and height
FirstPass ==
    /\ gpc = "pass1"
    /\ band <= NumBands(variant)
    /\ \E d \in Dims :
         LET k == IF variant = "spectral" THEN BANDS_spectral[band][1] ELSE 0
             known == variant = "spectral" /\ fileDims[k] # <<0, 0>>
         IN  /\ known => d = fileDims[k]
             /\ fileDims' = IF variant = "spectral"
                             THEN [fileDims EXCEPT ![k] = d] ELSE fileDims
             /\ height' = Grow(height, d[2])
             /\ width' = Grow(width, d[1])
             /\ seenW' = seenW \cup {d[1]}
             /\ seenH' = seenH \cup {d[2]}
    /\ band' = band + 1
    /\ UNCHANGED <<variant, gpc, shapes, depth, cloud_masks, ci, cj,
                   cloud_pixels, clear_pixels, ratio>>
    /\ UNCHANGED notGrid

\* band_array is allocated with height rows of width empty vectors
Allocate ==
    /\ gpc = "pass1"
    /\ band > NumBands(variant)
    /\ gpc' = "pass2"
    /\ band' = 1
    /\ UNCHANGED <<variant, width, height, seenW, seenH, fileDims, shapes, depth,
                   cloud_masks, ci, cj, cloud_pixels, clear_pixels, ratio>>
    /\ UNCHANGED notGrid

\* second loop over BANDS: read the band at width x height and append its
\* value to every band_array[i][j]; array[i][j] with i < height, j < width
\* raises IndexError on a smaller array
SecondPass ==
    /\ gpc = "pass2"
    /\ band <= NumBands(variant)
    /\ LET read == ReadAsArray(width, height) IN
         /\ shapes' = shapes \cup {read}
         /\ IF read[1] < height \/ (height > 0 /\ read[2] < width)
            THEN /\ gpc' = "IndexError"
                 /\ UNCHANGED <<band, depth>>
            ELSE /\ band' = band + 1
                 /\ depth' = depth + 1
                 /\ gpc' = gpc
    /\ UNCHANGED <<variant, width, height, seenW, seenH, fileDims, cloud_masks,
                   ci, cj, cloud_pixels, clear_pixels, ratio>>
    /\ UNCHANGED notGrid

\* cloud: get_cloud_masks returns a 0/1 mask over the grid;
\* spectral: the per-pixel sums run over the grid and total_pixels is taken
Classify ==
    /\ gpc = "pass2"
    /\ band > NumBands(variant)
    /\ IF variant = "cloud"
       THEN /\ cloud_masks' \in [(0..(height - 1)) \X (0..(width - 1)) -> {0, 1}]
            /\ gpc' = "count"
       ELSE /\ cloud_masks' = cloud_masks
            /\ gpc' = "done"
    /\ UNCHANGED <<variant, band, width, height, seenW, seenH, fileDims, shapes,
                   depth, ci, cj, cloud_pixels, clear_pixels, ratio>>
    /\ UNCHANGED notGrid

\* one iteration of the counting loop at (ci, cj)
CountPixel ==
    /\ gpc = "count"
    /\ ci < height
    /\ cj < width
    /\ IF IsClear(cloud_masks[<<ci, cj>>])
       THEN /\ clear_pixels' = clear_pixels + 1
            /\ cloud_pixels' = cloud_pixels
       ELSE /\ cloud_pixels' = cloud_pixels + 1
            /\ clear_pixels' = clear_pixels
    /\ IF cj + 1 < width
       THEN /\ cj' = cj + 1
            /\ ci' = ci
       ELSE /\ cj' = 0
            /\ ci' = ci + 1
    /\ UNCHANGED <<variant, gpc, band, width, height, seenW, seenH, fileDims,
                   shapes, depth, cloud_masks, ratio>>
    /\ UNCHANGED notGrid

\* return cloud_pixels / (cloud_pixels + clear_pixels)
ReturnRatio ==
    /\ gpc = "count"
    /\ ci >= height \/ cj >= width
    /\ IF cloud_pixels + clear_pixels = 0
       THEN /\ gpc' = "ZeroDivisionError"
            /\ ratio' = ratio
       ELSE /\ gpc' = "done"
            /\ ratio' = [num |-> cloud_pixels, den |-> cloud_pixels + clear_pixels]
    /\ UNCHANGED <<variant, band, width, height, seenW, seenH, fileDims, shapes,
                   depth, cloud_masks, ci, cj, cloud_pixels, clear_pixels>>
    /\ UNCHANGED notGrid

NextGrid ==
    \/ FirstPass
    \/ Allocate
    \/ SecondPass
    \/ Classify
    \/ CountPixel
    \/ ReturnRatio

SpecGrid == InitGrid /\ [][NextGrid]_vars

\* ------------------------------------ SpecHist: nlcd-pixel-category process
Categories == {1, 2, 3}

Rows == UNION {[1..n -> Categories] : n \in 0..MaxCols}

HasKey(d, v) == \E k \in 1..Len(d) : d[k][1] = v

KeyAt(d, v) == CHOOSE k \in 1..Len(d) : d[k][1] = v

\* `if v not in pixels: pixels[v] = 0` then `pixels[v] += 1`
CountResets(d, v) ==
    IF HasKey(d, v) THEN [d EXCEPT ![KeyAt(d, v)] = <<v, 1>>]
    ELSE Append(d, <<v, 1>>)

Count(d, v) ==
    LET e == IF HasKey(d, v) THEN d ELSE Append(d, <<v, 0>>)
        k == KeyAt(e, v)
    IN  [e EXCEPT ![k] = <<v, e[k][2] + 1>>]

InitHist ==
    /\ ParkedEntry
    /\ ParkedGrid
    /\ ParkedWb
    /\ \E n \in 0..MaxRows : array \in [1..n -> Rows]
    /\ IdleHist

\* the inner loop at (hi, hj): one pixel is counted
CountValue ==
    /\ hpc = "scan"
    /\ hi <= Len(array)
    /\ hj <= Len(array[hi])
    /\ pixels' = Count(pixels, array[hi][hj])
    /\ hj' = hj + 1
    /\ UNCHANGED <<array, hpc, hi, output>>
    /\ UNCHANGED notHist

\* the inner loop is over: the outer loop moves to the next row
NextRow ==
    /\ hpc = "scan"
    /\ hi <= Len(array)
    /\ hj > Len(array[hi])
    /\ hi' = hi + 1
    /\ hj' = 1
    /\ UNCHANGED <<array, hpc, pixels, output>>
    /\ UNCHANGED notHist

\* `for key, value in pixels.items(): output += ' ' + str(key) + ':' + str(value)`
PrintHistogram ==
    /\ hpc = "scan"
    /\ hi > Len(array)
    /\ output' = [k \in 1..Len(pixels) |-> <<pixels[k][1], pixels[k][2]>>]
    /\ hpc' = "done"
    /\ UNCHANGED <<array, hi, hj, pixels>>
    /\ UNCHANGED notHist

NextHist ==
    \/ CountValue
    \/ NextRow
    \/ PrintHistogram

SpecHist == InitHist /\ [][NextHist]_vars

\* ------------------------------- SpecWriteback: sentinel-2-cloud-coverage process
Geohashes == {"9q", "dr"}

Sources == {"S2A", "S2B"}

Tiles == {"T1.jp2", "T2.jp2"}

\* the band directories of the modelled tree: TCI and the first MaxBandDirs of BANDS
BandDirs == {"TCI"} \cup {BANDS_cloud[k] : k \in 1..MaxBandDirs}

Files == [geohash : Geohashes, band : BandDirs, source : Sources, tile : Tiles]

ImageKeys == [geohash : Geohashes, source : Sources, tile : Tiles]

\* str(cloud_coverage): the classifier is a function of the image's files
Values == {"0.0", "0.25"}

\* process calls running side by side in the pool; the first image is fixed,
\* the tree being symmetric in its names
ProcIds == {1, 2}

\* path.parents[2].glob('*/' + image.source + '/' + tile): the existing
\* paths <geohash dir>/<any directory>/<source>/<tile>
GlobAnySource(img) ==
    {f \in Files \ absent : f.geohash = img.geohash /\ f.tile = img.tile}

Glob(img) ==
    {f \in Files \ absent :
        f.geohash = img.geohash /\ f.source = img.source /\ f.tile = img.tile}

\* the generator moves past the path it yielded
AdvanceStuck(p, f) == p

Advance(p, f) == p \ {f}

\* the band files compute_cloud_coverage opens for the image
BandFiles(img) ==
    {f \in Files : /\ f.geohash = img.geohash /\ f.source = img.source
                   /\ f.tile = img.tile /\ f.band # "TCI"}

InitWriteback ==
    /\ ParkedEntry
    /\ ParkedGrid
    /\ ParkedHist
    /\ \E n \in ProcIds :
         /\ wimages \in {s \in [1..n -> ImageKeys] :
                           s[1] = [geohash |-> "9q", source |-> "S2A", tile |-> "T1.jp2"]}
         /\ wvalue \in {v \in [1..n -> Values] :
                          \A a, b \in 1..n : wimages[a] = wimages[b] => v[a] = v[b]}
         /\ wpc = [k \in 1..n |-> "compute"]
         /\ pending = [k \in 1..n |-> {}]
         /\ printed = [k \in 1..n |-> ""]
         /\ writes = [k \in 1..n |-> [f \in Files |-> 0]]
    /\ \E odd \in {{}} \cup {{f} : f \in Files} :
         \/ absent = odd /\ corrupt = {}
         \/ absent = {} /\ corrupt = odd
    /\ tags = [f \in Files |-> ""]

\* cloud_coverage = compute_cloud_coverage(...): fails when a band file of
\* the image cannot be opened
Compute(k) ==
    /\ wpc[k] = "compute"
    /\ wpc' = [wpc EXCEPT ![k] =
                 IF BandFiles(wimages[k]) \cap (absent \cup corrupt) = {}
                 THEN "print" ELSE "error"]
    /\ UNCHANGED <<wimages, wvalue, absent, corrupt, pending, printed, tags, writes>>
    /\ UNCHANGED notWb

\* print(image.geohash + ' ' + path.name + ' ' + str(cloud_coverage)); the
\* glob of the update loop starts
PrintCoverage(k) ==
    /\ wpc[k] = "print"
    /\ printed' = [printed EXCEPT ![k] = wvalue[k]]
    /\ pending' = [pending EXCEPT ![k] = Glob(wimages[k])]
    /\ wpc' = [wpc EXCEPT ![k] = "update"]
    /\ UNCHANGED <<wimages, wvalue, absent, corrupt, tags, writes>>
    /\ UNCHANGED notWb

\* one iteration of the update loop: gdal.Open(str(path)) and SetMetadataItem;
\* gdal.Open returns None for a file it cannot open and the call on it raises
SetTag(k) ==
    /\ wpc[k] = "update"
    /\ \E f \in pending[k] :
         /\ pending' = [pending EXCEPT ![k] = Advance(pending[k], f)]
         /\ IF f \in corrupt
            THEN /\ wpc' = [wpc EXCEPT ![k] = "error"]
                 /\ UNCHANGED <<tags, writes>>
            ELSE /\ tags' = [tags EXCEPT ![f] = wvalue[k]]
                 /\ writes' = [writes EXCEPT ![k][f] = @ + 1]
                 /\ UNCHANGED wpc
    /\ UNCHANGED <<wimages, wvalue, absent, corrupt, printed>>
    /\ UNCHANGED notWb

\* the glob is exhausted: process returns
Return(k) ==
    /\ wpc[k] = "update"
    /\ pending[k] = {}
    /\ wpc' = [wpc EXCEPT ![k] = "done"]
    /\ UNCHANGED <<wimages, wvalue, absent, corrupt, pending, printed, tags, writes>>
    /\ UNCHANGED notWb

NextWriteback ==
    \/ \E k \in DOMAIN wimages : Compute(k)
    \/ \E k \in DOMAIN wimages : PrintCoverage(k)
    \/ \E k \in DOMAIN wimages : SetTag(k)
    \/ \E k \in DOMAIN wimages : Return(k)

SpecWriteback == InitWriteback /\ [][NextWriteback]_vars

\* ---------------------------------------------- SpecDedup: the glcm listing
DedupRecords ==
    {Record(n, TRUE, g, t) : n \in {RequiredFiles - 1, RequiredFiles},
                             g \in Geocodes, t \in 0..MaxTime}

InitDedup ==
    /\ metric = "glcm"
    /\ argsOk = TRUE
    /\ threads = 1
    /\ date \in 0..MaxTime
    /\ \E n \in 0..MaxDedup : catalog \in [1..n -> DedupRecords]
    /\ IdleEntry
    /\ ParkedGrid
    /\ ParkedHist
    /\ ParkedWb

NextDedup ==
    \/ ParseArgs
    \/ ListImage
    \/ StartMap

SpecDedup == InitDedup /\ [][NextDedup]_vars

\* ------------------------------------------------------------------ claims
Listed == cursor > Len(catalog)

Ids == 1..Len(catalog)

C2_FileCountGate ==
    metric \in Gated =>
      /\ \A i \in Ids : catalog[i].files # RequiredFiles
            => i \notin (opened \cup reported \cup raisedBy)
      /\ failed => \E i \in raisedBy : catalog[i].files = RequiredFiles
      /\ (pc = "exit" /\ exitCode = 0)
            => \A i \in Ids : catalog[i].files = RequiredFiles => i \in reported

\* C2 witness: a spectral run ended with status 0 in which one image was
\* rejected by the gate and another was reported.
C2_Witness ==
    /\ metric = "spectral" /\ pc = "exit" /\ exitCode = 0
    /\ \E i \in noticed : catalog[i].files < RequiredFiles
    /\ \E i \in noticed : catalog[i].files > RequiredFiles
    /\ reported # {}

\* C4: process exit status, for the runs whose arguments are well-formed and
\* whose images reached the pool.  Such a run, once finished, has status 0,
\* whether or not an image failed in a worker.
C4_ExitStatus ==
    (pc = "exit" /\ argsOk /\ Listed) => exitCode = 0

\* C5: a missing band is per-image.  In a finished run in which every raster
\* is readable, so that the only possible error is a file index out of range,
\* every record that has the files its script reads (and passes the script's
\* gate) has been dispatched to process, which returned normally.
C5_MissingBandPerImage ==
    (pc = "exit" /\ argsOk /\ \A i \in Ids : catalog[i].readable)
    => \A j \in Ids :
         (/\ catalog[j].files > TopIndex(metric)
          /\ metric \in Gated => catalog[j].files = RequiredFiles)
         => j \in reported

\* C3: grid alignment.  During the first pass width and height are the
\* largest native width and height met so far; once the first pass is over
\* they equal the maxima over all selected bands, no band is larger in either
\* dimension, every array read in the second pass has exactly height rows and
\* width columns, and no read fails on an index.
C3_GridAlignment ==
    /\ width = Max(seenW \cup {0})
    /\ height = Max(seenH \cup {0})
    /\ gpc # "pass1" =>
          /\ seenW # {} /\ seenH # {}
          /\ \A w \in seenW : width >= w
          /\ \A h \in seenH : height >= h
          /\ width \in seenW /\ height \in seenH
          /\ shapes \subseteq {<<height, width>>}
    /\ gpc # "IndexError"
    /\ gpc \in {"count", "done"} => depth = NumBands(variant)

\* C3 witness: the spectral script has finished the second pass on two files
\* of which one is the wider and the other the higher.
C3_Witness ==
    /\ variant = "spectral" /\ gpc = "done"
    /\ Cardinality(seenW) = 2 /\ Cardinality(seenH) = 2
    /\ fileDims[0][1] < fileDims[1][1] /\ fileDims[0][2] > fileDims[1][2]
    /\ shapes = {<<height, width>>}

\* C7: cloud ratio bounds.  The cloud computation never ends in an error;
\* when it returns, clear_pixels + cloud_pixels is width * height, the ratio's
\* denominator is that positive number, its numerator lies between 0 and the
\* denominator, and it is 0 for an all-clear and 1 for an all-cloud mask.
C7_CloudRatio ==
    variant = "cloud" =>
      /\ gpc \notin {"IndexError", "ZeroDivisionError"}
      /\ gpc = "done" =>
            /\ clear_pixels + cloud_pixels = width * height
            /\ ratio.den = width * height
            /\ ratio.den > 0
            /\ 0 <= ratio.num /\ ratio.num <= ratio.den
            /\ ratio.num = Cardinality({c \in DOMAIN cloud_masks : cloud_masks[c] # 0})
            /\ (\A c \in DOMAIN cloud_masks : cloud_masks[c] = 0) => ratio.num = 0
            /\ (\A c \in DOMAIN cloud_masks : cloud_masks[c] # 0) => ratio.num = ratio.den

\* C7 witness: a returned ratio strictly between 0 and 1 on a grid of more
\* than one row and one column.
C7_Witness ==
    /\ variant = "cloud" /\ gpc = "done"
    /\ width > 1 /\ height > 1
    /\ 0 < ratio.num /\ ratio.num < ratio.den

\* row-major flattening of a sequence of rows
RECURSIVE Flatten(_)
Flatten(a) == IF a = <<>> THEN <<>> ELSE Head(a) \o Flatten(Tail(a))

RECURSIVE SumCounts(_)
SumCounts(o) == IF o = <<>> THEN 0 ELSE Head(o)[2] + SumCounts(Tail(o))

\* C8: categorical histogram.  The printed items have pairwise distinct
\* values, exactly the values occurring in the array; each count is the number
\* of occurrences of its value; the counts sum to the number of pixels; the
\* items come in the order of first occurrence in a row-major scan; and
\* [[1,1],[2,3]] prints 1:2 2:1 3:1.
C8_Histogram ==
    LET flat == Flatten(array)
        first(v) == CHOOSE p \in 1..Len(flat) :
                      flat[p] = v /\ \A q \in 1..(p - 1) : flat[q] # v
    IN  hpc = "done" =>
          /\ \A a, b \in 1..Len(output) : a # b => output[a][1] # output[b][1]
          /\ {output[a][1] : a \in 1..Len(output)} = Range(flat)
          /\ \A a \in 1..Len(output) :
               output[a][2] = Cardinality({p \in 1..Len(flat) : flat[p] = output[a][1]})
          /\ SumCounts(output) = Len(flat)
          /\ \A a, b \in 1..Len(output) :
               a < b => first(output[a][1]) < first(output[b][1])
          /\ array = <<<<1, 1>>, <<2, 3>>>>
               => output = <<<<1, 2>>, <<2, 1>>, <<3, 1>>>>

\* C8 witness: a ragged array whose second row repeats a value of the first
\* and adds a smaller one has been printed.
C8_Witness ==
    /\ hpc = "done"
    /\ array = <<<<3>>, <<3, 1>>>>
    /\ output = <<<<3, 2>>, <<1, 1>>>>

\* C6: writeback deduplication.  An image's processing calls SetMetadataItem
\* at most once on any file, and exactly once on every existing file
\* <geohash>/<any band directory>/<source>/<tile> once process has returned.
C6_WriteOnce ==
    \A k \in DOMAIN wimages :
      /\ \A f \in Files : writes[k][f] <= 1
      /\ wpc[k] = "done" =>
           \A f \in Files \ absent :
             (/\ f.geohash = wimages[k].geohash /\ f.source = wimages[k].source
              /\ f.tile = wimages[k].tile) => writes[k][f] = 1

\* C6 witness: an image's process has returned after writing every band
\* directory's file.
C6_Witness ==
    \E k \in DOMAIN wimages :
      /\ wpc[k] = "done"
      /\ Cardinality({f \in Files : writes[k][f] = 1}) = Cardinality(BandDirs)

\* C10: writeback coverage and frame.  Once process(image) has returned, every
\* existing file <geohash>/<any band directory>/<source>/<tile> of the image
\* carries the value printed in the image's report line; an image never
\* writes a file of another tile, source or geohash, so files matched by no
\* image keep their tag; and no image writes before it has printed.
C10_CoverageAndFrame ==
    LET mine(k, f) == /\ f.geohash = wimages[k].geohash
                      /\ f.source = wimages[k].source
                      /\ f.tile = wimages[k].tile
    IN  /\ \A k \in DOMAIN wimages :
             /\ wpc[k] = "done" =>
                  /\ printed[k] = wvalue[k]
                  /\ \A f \in Files \ absent : mine(k, f) => tags[f] = printed[k]
             /\ \A f \in Files : writes[k][f] > 0 => mine(k, f) /\ printed[k] # ""
        /\ \A f \in Files :
             (\A k \in DOMAIN wimages : ~mine(k, f)) => tags[f] = ""

\* C10 witness: two images of the same geohash and tile but different sources
\* have both been processed, with different values.
C10_Witness ==
    /\ Len(wimages) = 2
    /\ wpc[1] = "done" /\ wpc[2] = "done"
    /\ wimages[1].geohash = wimages[2].geohash
    /\ wimages[1].tile = wimages[2].tile
    /\ printed[1] # printed[2]
    /\ absent # {}

\* C9: nearest-date deduplication.  Over the records listed so far, the kept
\* images have pairwise distinct geocodes and RequiredFiles files each, every
\* geocode with a RequiredFiles-file record has a kept image, and the kept
\* image of a geocode is the earliest-returned among that geocode's
\* RequiredFiles-file records of minimal distance to the target date.
C9_NearestDate ==
    LET seen == {j \in Ids : j < cursor /\ catalog[j].files = RequiredFiles}
        dist(j) == Abs(catalog[j].timestamp - date)
    IN  metric = "glcm" =>
          /\ \A a, b \in 1..Len(images) :
                a # b => catalog[images[a]].geocode # catalog[images[b]].geocode
          /\ Range(images) \subseteq seen
          /\ \A j \in seen : \E i \in Range(images) :
                /\ catalog[i].geocode = catalog[j].geocode
                /\ dist(i) <= dist(j)
                /\ dist(i) = dist(j) => i <= j

\* C9 witness: the list is ready for the pool, a later record displaced an
\* earlier one of its geocode, a tie was met and resolved, and a record
\* without RequiredFiles files came after a kept one.
C9_Witness ==
    /\ metric = "glcm" /\ pc = "map" /\ Len(catalog) = MaxDedup
    /\ \E i \in Range(images) : \E j \in Ids :
          /\ j < i /\ catalog[j].geocode = catalog[i].geocode
          /\ catalog[j].files = RequiredFiles
    /\ \E i \in Range(images) : \E j \in Ids :
          /\ j > i /\ catalog[j].geocode = catalog[i].geocode
          /\ catalog[j].files = RequiredFiles
          /\ Abs(catalog[j].timestamp - date) = Abs(catalog[i].timestamp - date)
====
